---- MODULE Spec2Model ----
(***************************************************************************)
(* Model of seance-1/index.js: a NodeJS script that starts four           *)
(* independent promise chains (line 35, Option 1, Option 2, Option 3).    *)
(* Option 3 downloads the 2022 endorsements, runs array queries on them,  *)
(* scrapes a list of URLs first simultaneously (Promise.all over          *)
(* URLS.map) and then sequentially (URLS.reduce over a promise), reads    *)
(* the 2017 endorsements from a local file and joins the two years.       *)
(*                                                                         *)
(* One action is one event-loop task (a fetch response, a decoded body,   *)
(* a timer, a failure) together with every microtask it triggers: the     *)
(* continuation of an async function after an await of an already settled *)
(* promise runs inside the same action.  No chain has a catch handler, so *)
(* a rejection is an unhandled rejection and ends the process.            *)
(*                                                                         *)
(* Time is a stopwatch in milliseconds, restarted when a batch starts and *)
(* read when the batch resolves.  A fetch may answer at any time; a sleep *)
(* timer fires no earlier than its delay.                                 *)
(***************************************************************************)
EXTENDS Integers, Sequences, FiniteSets, TLC

VARIABLES
    urls,        \* URLS, line 120
    remote2022,  \* what the data-2022.json endpoint serves
    file2017,    \* what data-2017.json holds
    p35,         \* the promise of line 35
    opt1,        \* Option 1 chain, lines 42-50
    opt2,        \* Option 2 async function, lines 54-59
    pc3,         \* Option 3 async function, lines 64-198
    data2022,    \* line 65
    pctOut,      \* value logged at line 71
    distinctOut, \* value logged at line 86
    sim,         \* the async callbacks of URLS.map, lines 129-134
    simValues,   \* the values array Promise.all fills
    reordered,   \* history: some callback finished before an earlier one
    simOut,      \* webpagesSimultaneous, line 129
    simElapsed,  \* stopwatch reading when webpagesSimultaneous resolved
    seq,         \* the async callbacks of URLS.reduce, lines 139-145
    seqOut,      \* webpagesSequential, line 139
    seqElapsed,  \* stopwatch reading when webpagesSequential resolved
    clock,       \* stopwatch, ms since the running batch started
    data2017,    \* line 158
    tallyOut,    \* value logged at lines 166-175
    run,         \* "running" or "crashed" (the process)
    err          \* the error the process died of, or "none"

vars == <<urls, remote2022, file2017, p35, opt1, opt2, pc3, data2022, pctOut,
          distinctOut, sim, simValues, reordered, simOut, simElapsed, seq,
          seqOut, seqElapsed, clock, data2017, tallyOut, run, err>>

(***************************************************************************)
(* Bounds of the model and constants of the program.                      *)
(***************************************************************************)
MaxUrls == 3
MaxTicks == 7
TickMs == 1000
MaxRecords == 3
MaxJoin == 2
Delay == 2000

None == <<>>
Some(v) == <<v>>
Min(a, b) == IF a < b THEN a ELSE b

RECURSIVE ListsUpTo(_, _)
ListsUpTo(S, n) ==
    IF n = 0 THEN {<<>>}
    ELSE LET shorter == ListsUpTo(S, n - 1)
         IN  shorter \cup {Append(l, x) : l \in {m \in shorter : Len(m) = n - 1}, x \in S}

(***************************************************************************)
(* Inputs.                                                                 *)
(***************************************************************************)
URLS == <<"https://example.com", "https://tomfevrier.io", "https://lesechos.fr">>
UrlPool == {"https://example.com", "https://tomfevrier.io"}
UrlLists == ListsUpTo(UrlPool, MaxUrls) \cup {URLS}

Record(n, k, c, v, m) ==
    [name |-> n, constituency |-> k, candidate |-> c, civility |-> v, mandate |-> m]

Sample2022 == <<Record("A", "X1", "zemmour", "Mme", "Maire de Paris")>>
Sample2017 == <<Record("A", "X1", "fillon", "Mme", "Maire de Paris")>>

\* Records that differ in the fields the aggregate queries read.
QueryRecords ==
    {Record("A", "X1", c, v, "Maire de Paris") :
        c \in {"zemmour", "macron", "pecresse"}, v \in {"M.", "Mme", "Dr"}}

\* Records that differ in the fields the cross-year join reads.
Officials == {<<"A", "X1">>, <<"A", "X2">>, <<"B", "X1">>}
JoinRecords2022 ==
    {Record(o[1], o[2], c, "M.", "Maire") : o \in Officials, c \in {"zemmour", "macron"}}
JoinRecords2017 ==
    {Record(o[1], o[2], c, "M.", "Maire") : o \in Officials, c \in {"fillon", "lepen"}}

(***************************************************************************)
(* Aggregate queries, lines 71 and 86.                                     *)
(***************************************************************************)
RECURSIVE CountCivility(_, _)
CountCivility(R, v) ==
    IF R = <<>> THEN 0
    ELSE (IF Head(R).civility = v THEN 1 ELSE 0) + CountCivility(Tail(R), v)

\* Faulty variant: the filter misses the last record.
CountCivilitySkipLast(R, v) ==
    IF R = <<>> THEN 0 ELSE CountCivility(SubSeq(R, 1, Len(R) - 1), v)

\* data2022.filter((d) => d.civility === v).length
FilterCivilityLength(R, v) == CountCivility(R, v)

\* filter(...).length / data2022.length * 100, kept as the exact fraction
\* num / den; 0 / 0 is JavaScript's NaN.
PercentageWithCivility(R, v) ==
    [num |-> FilterCivilityLength(R, v) * 100, den |-> Len(R)]

MapCandidate(R) == [i \in 1..Len(R) |-> R[i].candidate]

\* new Set(iterable): values in order of first insertion, each once.
RECURSIVE SetOf(_, _)
SetOf(acc, s) ==
    IF s = <<>> THEN acc
    ELSE SetOf(IF \E i \in 1..Len(acc) : acc[i] = Head(s) THEN acc
               ELSE Append(acc, Head(s)),
               Tail(s))

\* Faulty variant: the array is not passed through a Set.
DistinctCandidatesNoSet(R) == MapCandidate(R)

DistinctCandidates(R) == SetOf(<<>>, MapCandidate(R))

(***************************************************************************)
(* Cross-year join, lines 166-175.                                         *)
(***************************************************************************)
RECURSIVE FilterCandidate(_, _)
FilterCandidate(R, c) ==
    IF R = <<>> THEN <<>>
    ELSE IF Head(R).candidate = c
         THEN <<Head(R)>> \o FilterCandidate(Tail(R), c)
         ELSE FilterCandidate(Tail(R), c)

SameOfficial(e, d) == e.name = d.name /\ e.constituency = d.constituency

\* Faulty variant: the last matching element instead of the first.
FindLastSponsor(E, d) ==
    LET hits == {i \in 1..Len(E) : SameOfficial(E[i], d)}
    IN  IF hits = {} THEN None
        ELSE Some(E[CHOOSE i \in hits : \A j \in hits : j <= i])

\* Array.prototype.find: the first matching element, or undefined (None).
FindSponsor(E, d) ==
    LET hits == {i \in 1..Len(E) : SameOfficial(E[i], d)}
    IN  IF hits = {} THEN None
        ELSE Some(E[CHOOSE i \in hits : \A j \in hits : i <= j])

\* acc[c] = (acc[c] || 0) + 1
TallyIncrement(acc, c) ==
    LET old == IF c \in DOMAIN acc /\ acc[c] # 0 THEN acc[c] ELSE 0
    IN  [k \in DOMAIN acc \cup {c} |-> IF k = c THEN old + 1 ELSE acc[k]]

RECURSIVE ReduceTally(_, _, _)
ReduceTally(acc, F, E) ==
    IF F = <<>> THEN acc
    ELSE LET sponsor2017 == FindSponsor(E, Head(F))
         IN  ReduceTally(IF sponsor2017 # None
                         THEN TallyIncrement(acc, sponsor2017[1].candidate)
                         ELSE acc,
                         Tail(F), E)

EmptyTally == [k \in {} |-> 0]

JoinTally(R, E, c) == ReduceTally(EmptyTally, FilterCandidate(R, c), E)

(***************************************************************************)
(* Scraping, lines 120-146.                                                *)
(***************************************************************************)
\* The text of the page at url: every retrieval of a URL yields the same page.
Body(url) == <<"<html>", url>>
NoHtml == <<>>

N == Len(urls)

InFlight == {"fetch", "text", "sleep"}

\* setTimeout(() => resolve(), time): the timer fires once time ms have passed.
TimerDueAtOnce(slept, time) == TRUE

TimerDue(slept, time) == slept >= time

\* Faulty variant: a callback starts its fetch only when the one before is done.
InitialSimTaskLazy(i) ==
    [pc |-> IF i = 1 THEN "fetch" ELSE "idle", issued |-> i = 1, slept |-> 0,
     html |-> NoHtml]

\* URLS.map(async (url) => ...) runs every callback up to its first await:
\* 'Scraping' is logged and fetch(url) is called.
InitialSimTask(i) == [pc |-> "fetch", issued |-> TRUE, slept |-> 0, html |-> NoHtml]

\* Faulty variant: values are stored in the order the promises fulfil.
PromiseAllAppend(values, i, v) ==
    LET k == CHOOSE j \in 1..Len(values) :
                 values[j] = None /\ \A m \in 1..(j - 1) : values[m] # None
    IN  [values EXCEPT ![k] = Some(v)]

\* Promise.all stores the value of its i-th promise at index i.
PromiseAllCollect(values, i, v) == [values EXCEPT ![i] = Some(v)]

Unwrap(values) == [i \in 1..Len(values) |-> values[i][1]]

\* Faulty variant: the new page is put in front.
SeqPrepend(pages, html) == <<html>> \o pages

\* return [...pages, html]
SeqAccumulate(pages, html) == Append(pages, html)

SeqTask0 ==
    [pc |-> "awaitPrev", issued |-> FALSE, slept |-> 0, html |-> NoHtml, pages |-> <<>>]

\* Faulty variant: fetch(url) is called without looking at the awaited promise.
ResumeSequentialAnyway(prev, task) ==
    IF task.pc # "awaitPrev" THEN task
    ELSE [task EXCEPT !.pc = "fetch", !.issued = TRUE,
                      !.pages = IF prev.pc = "fulfilled" THEN prev.pages ELSE <<>>]

\* const pages = await promise; console.log('Scraping', url); fetch(url):
\* the callback goes on once the promise of the previous callback settles,
\* and the await throws if that promise was rejected.
ResumeSequential(prev, task) ==
    IF task.pc # "awaitPrev" THEN task
    ELSE IF prev.pc = "fulfilled"
         THEN [task EXCEPT !.pc = "fetch", !.issued = TRUE, !.pages = prev.pages]
         ELSE [task EXCEPT !.pc = "rejected"]

\* Faulty variant: every callback of the reduce calls fetch(url) at once.
InitialSeqTaskEager(i) ==
    [SeqTask0 EXCEPT !.pc = "fetch", !.issued = TRUE]

\* URLS.reduce(async (promise, url) => ..., Promise.resolve([])) runs every
\* callback up to 'await promise'; the first awaits a resolved promise.
InitialSeqTask(i) ==
    IF i = 1 THEN ResumeSequential([pc |-> "fulfilled", pages |-> <<>>], SeqTask0)
    ELSE SeqTask0

\* The callbacks after k, once callback k has been rejected.
RECURSIVE RejectCascade(_, _)
RejectCascade(s, k) ==
    IF k >= Len(s) THEN s
    ELSE LET next == ResumeSequential(s[k], s[k + 1])
         IN  IF next.pc = "rejected"
             THEN RejectCascade([s EXCEPT ![k + 1] = next], k + 1)
             ELSE [s EXCEPT ![k + 1] = next]

Settled(task) == task.pc \in {"failed", "rejected"}

(***************************************************************************)
(* Failure: no .catch and no try/catch anywhere, so a rejected chain is   *)
(* an unhandled rejection, which ends the process.                        *)
(***************************************************************************)
\* Faulty variant: the error is caught and the script goes on.
Swallowed(e) == run' = run /\ err' = e

Unhandled(e) == run' = "crashed" /\ err' = e

NoCrash == UNCHANGED <<run, err>>

Running == run = "running"

(***************************************************************************)
(* Option 3 from line 158 to its end: read the file, join, log.           *)
(* Sets data2017, tallyOut, pc3, run, err.                                 *)
(***************************************************************************)
ReadAndJoin ==
    \/ /\ data2017' = file2017
       /\ tallyOut' = Some(JoinTally(data2022', data2017', "zemmour"))
       /\ pc3' = "done"
       /\ NoCrash
    \/ /\ \E e \in {"FileAccessError", "DecodeError"} : Unhandled(e)
       /\ pc3' = "failed"
       /\ UNCHANGED <<data2017, tallyOut>>

\* webpagesSequential resolved with pages after t ms: lines 139, 146 and on.
AfterSequential(pages, t) ==
    /\ seqOut' = Some(pages)
    /\ seqElapsed' = t
    /\ ReadAndJoin

\* Line 139: the reduce.  Sets seq, and what AfterSequential sets.
StartSequential ==
    IF N = 0
    THEN /\ seq' = <<>>
         /\ AfterSequential(<<>>, 0)
    ELSE /\ seq' = [i \in 1..N |-> InitialSeqTask(i)]
         /\ pc3' = "await139"
         /\ NoCrash
         /\ UNCHANGED <<seqOut, seqElapsed, data2017, tallyOut>>

\* webpagesSimultaneous resolved with values: lines 129, 135 and on.
\* The stopwatch is read and restarted for the sequential batch.
AfterSimultaneous(values) ==
    /\ simOut' = Some(values)
    /\ simElapsed' = clock
    /\ clock' = 0
    /\ StartSequential

\* Line 129: URLS.map and Promise.all.  Sets sim, simValues, reordered and
\* what AfterSimultaneous sets.
StartSimultaneous ==
    /\ reordered' = FALSE
    /\ IF N = 0
       THEN /\ sim' = <<>>
            /\ simValues' = <<>>
            /\ AfterSimultaneous(<<>>)
       ELSE /\ sim' = [i \in 1..N |-> InitialSimTask(i)]
            /\ simValues' = [i \in 1..N |-> None]
            /\ pc3' = "await129"
            /\ clock' = 0
            /\ NoCrash
            /\ UNCHANGED <<simOut, simElapsed, seq, seqOut, seqElapsed, data2017, tallyOut>>

inputs == <<urls, remote2022, file2017>>
chains == <<p35, opt1, opt2>>
queries == <<data2022, pctOut, distinctOut>>
simVars == <<sim, simValues, reordered, simOut, simElapsed>>
seqVars == <<seq, seqOut, seqElapsed>>
joinVars == <<data2017, tallyOut>>

(***************************************************************************)
(* The promise of line 35 and the chains of Option 1 and Option 2.        *)
(***************************************************************************)
P35Response ==
    /\ Running /\ p35 = "pending"
    /\ p35' = "fulfilled"
    /\ UNCHANGED <<inputs, opt1, opt2, pc3, queries, simVars, seqVars, clock, joinVars, run, err>>

P35Fail ==
    /\ Running /\ p35 = "pending"
    /\ p35' = "rejected"
    /\ Unhandled("RetrievalError")
    /\ UNCHANGED <<inputs, opt1, opt2, pc3, queries, simVars, seqVars, clock, joinVars>>

Opt1Response ==
    /\ Running /\ opt1 = "fetch"
    /\ opt1' = "json"
    /\ UNCHANGED <<inputs, p35, opt2, pc3, queries, simVars, seqVars, clock, joinVars, run, err>>

Opt1Json ==
    /\ Running /\ opt1 = "json"
    /\ opt1' = "done"
    /\ UNCHANGED <<inputs, p35, opt2, pc3, queries, simVars, seqVars, clock, joinVars, run, err>>

Opt1Fail ==
    /\ Running /\ opt1 \in {"fetch", "json"}
    /\ opt1' = "failed"
    /\ Unhandled(IF opt1 = "fetch" THEN "RetrievalError" ELSE "DecodeError")
    /\ UNCHANGED <<inputs, p35, opt2, pc3, queries, simVars, seqVars, clock, joinVars>>

Opt2Response ==
    /\ Running /\ opt2 = "fetch"
    /\ opt2' = "json"
    /\ UNCHANGED <<inputs, p35, opt1, pc3, queries, simVars, seqVars, clock, joinVars, run, err>>

Opt2Json ==
    /\ Running /\ opt2 = "json"
    /\ opt2' = "done"
    /\ UNCHANGED <<inputs, p35, opt1, pc3, queries, simVars, seqVars, clock, joinVars, run, err>>

Opt2Fail ==
    /\ Running /\ opt2 \in {"fetch", "json"}
    /\ opt2' = "failed"
    /\ Unhandled(IF opt2 = "fetch" THEN "RetrievalError" ELSE "DecodeError")
    /\ UNCHANGED <<inputs, p35, opt1, pc3, queries, simVars, seqVars, clock, joinVars>>

(***************************************************************************)
(* Option 3, lines 64-198.                                                 *)
(***************************************************************************)
Opt3Response ==
    /\ Running /\ pc3 = "fetch65"
    /\ pc3' = "json66"
    /\ UNCHANGED <<inputs, chains, queries, simVars, seqVars, clock, joinVars, run, err>>

Opt3Fail ==
    /\ Running /\ pc3 \in {"fetch65", "json66"}
    /\ pc3' = "failed"
    /\ Unhandled(IF pc3 = "fetch65" THEN "RetrievalError" ELSE "DecodeError")
    /\ UNCHANGED <<inputs, chains, queries, simVars, seqVars, clock, joinVars>>

\* r.json() resolved: lines 65-129 run up to the await of Promise.all.
Opt3Json ==
    /\ Running /\ pc3 = "json66"
    /\ data2022' = remote2022
    /\ pctOut' = Some(PercentageWithCivility(data2022', "M."))
    /\ distinctOut' = Some(DistinctCandidates(data2022'))
    /\ StartSimultaneous
    /\ UNCHANGED <<inputs, chains>>

SimResponse(i) ==
    /\ Running /\ sim[i].pc = "fetch"
    /\ sim' = [sim EXCEPT ![i].pc = "text"]
    /\ UNCHANGED <<inputs, chains, pc3, queries, simValues, reordered, simOut, simElapsed,
                   seqVars, clock, joinVars, run, err>>

SimText(i) ==
    /\ Running /\ sim[i].pc = "text"
    /\ sim' = [sim EXCEPT ![i].pc = "sleep", ![i].html = Body(urls[i]), ![i].slept = 0]
    /\ UNCHANGED <<inputs, chains, pc3, queries, simValues, reordered, simOut, simElapsed,
                   seqVars, clock, joinVars, run, err>>

\* A callback of the map is rejected: Promise.all rejects, the await of line
\* 129 throws, the async function of Option 3 is rejected.
SimFail(i) ==
    /\ Running /\ sim[i].pc \in {"fetch", "text"}
    /\ sim' = [sim EXCEPT ![i].pc = "failed"]
    /\ pc3' = IF pc3 = "await129" THEN "failed" ELSE pc3
    /\ Unhandled(IF sim[i].pc = "fetch" THEN "RetrievalError" ELSE "DecodeError")
    /\ UNCHANGED <<inputs, chains, queries, simValues, reordered, simOut, simElapsed,
                   seqVars, clock, joinVars>>

\* The timer of line 132 fires: the callback returns html, Promise.all stores
\* it, and if it was the last one the await of line 129 resumes.
SimSleepDone(i) ==
    /\ Running /\ sim[i].pc = "sleep" /\ TimerDue(sim[i].slept, Delay)
    /\ UNCHANGED <<inputs, chains, queries>>
    /\ sim' = [sim EXCEPT ![i].pc = "done"]
    /\ simValues' = PromiseAllCollect(simValues, i, sim[i].html)
    /\ reordered' = (reordered \/ \E j \in 1..(i - 1) : sim[j].pc # "done")
    /\ IF pc3 = "await129" /\ \A j \in 1..N : sim'[j].pc = "done"
       THEN AfterSimultaneous(Unwrap(simValues'))
       ELSE UNCHANGED <<pc3, simOut, simElapsed, seqVars, clock, joinVars, run, err>>

SeqResponse(i) ==
    /\ Running /\ seq[i].pc = "fetch"
    /\ seq' = [seq EXCEPT ![i].pc = "text"]
    /\ UNCHANGED <<inputs, chains, pc3, queries, simVars, seqOut, seqElapsed, clock,
                   joinVars, run, err>>

SeqText(i) ==
    /\ Running /\ seq[i].pc = "text"
    /\ seq' = [seq EXCEPT ![i].pc = "sleep", ![i].html = Body(urls[i]), ![i].slept = 0]
    /\ UNCHANGED <<inputs, chains, pc3, queries, simVars, seqOut, seqElapsed, clock,
                   joinVars, run, err>>

\* A callback of the reduce is rejected: each later callback's 'await promise'
\* throws in turn, and so does the await of line 139.
SeqFail(i) ==
    /\ Running /\ seq[i].pc \in {"fetch", "text"}
    /\ seq' = RejectCascade([seq EXCEPT ![i].pc = "failed"], i)
    /\ IF Settled(seq'[N]) /\ pc3 = "await139"
       THEN /\ pc3' = "failed"
            /\ Unhandled(IF seq[i].pc = "fetch" THEN "RetrievalError" ELSE "DecodeError")
       ELSE UNCHANGED <<pc3, run, err>>
    /\ UNCHANGED <<inputs, chains, queries, simVars, seqOut, seqElapsed, clock, joinVars>>

\* The timer of line 143 fires: the callback returns [...pages, html]; the
\* next callback resumes, or the await of line 139 does.
SeqSleepDone(i) ==
    /\ Running /\ seq[i].pc = "sleep" /\ TimerDue(seq[i].slept, Delay)
    /\ UNCHANGED <<inputs, chains, queries, simVars, clock>>
    /\ LET done == [seq[i] EXCEPT !.pc = "fulfilled",
                                  !.pages = SeqAccumulate(seq[i].pages, seq[i].html)]
       IN  IF i = N
           THEN /\ seq' = [seq EXCEPT ![i] = done]
                /\ IF pc3 = "await139"
                   THEN AfterSequential(done.pages, clock)
                   ELSE UNCHANGED <<pc3, seqOut, seqElapsed, joinVars, run, err>>
           ELSE /\ seq' = [seq EXCEPT ![i] = done,
                                      ![i + 1] = ResumeSequential(done, seq[i + 1])]
                /\ UNCHANGED <<pc3, seqOut, seqElapsed, joinVars, run, err>>

\* TickMs milliseconds pass while a batch is running.
Tick ==
    /\ Running /\ pc3 \in {"await129", "await139"}
    /\ clock + TickMs <= MaxTicks * TickMs
    /\ clock' = clock + TickMs
    /\ sim' = [i \in 1..Len(sim) |->
                 IF sim[i].pc = "sleep"
                 THEN [sim[i] EXCEPT !.slept = Min(Delay, @ + TickMs)] ELSE sim[i]]
    /\ seq' = [i \in 1..Len(seq) |->
                 IF seq[i].pc = "sleep"
                 THEN [seq[i] EXCEPT !.slept = Min(Delay, @ + TickMs)] ELSE seq[i]]
    /\ UNCHANGED <<inputs, chains, pc3, queries, simValues, reordered, simOut, simElapsed,
                   seqOut, seqElapsed, joinVars, run, err>>

(***************************************************************************)
(* The script: the state once the module body has run (lines 35-64: four  *)
(* fetches are in flight), with the URLS of line 120.                     *)
(***************************************************************************)
Blank ==
    /\ data2022 = <<>> /\ pctOut = None /\ distinctOut = None
    /\ sim = <<>> /\ simValues = <<>> /\ reordered = FALSE
    /\ simOut = None /\ simElapsed = 0
    /\ seq = <<>> /\ seqOut = None /\ seqElapsed = 0
    /\ clock = 0
    /\ data2017 = <<>> /\ tallyOut = None
    /\ run = "running" /\ err = "none"

Init ==
    /\ urls = URLS
    /\ remote2022 = Sample2022
    /\ file2017 = Sample2017
    /\ p35 = "pending" /\ opt1 = "fetch" /\ opt2 = "fetch" /\ pc3 = "fetch65"
    /\ Blank

Batch ==
    \/ Opt3Response
    \/ Opt3Fail
    \/ Opt3Json
    \/ \E i \in 1..Len(sim) : SimResponse(i)
    \/ \E i \in 1..Len(sim) : SimText(i)
    \/ \E i \in 1..Len(sim) : SimFail(i)
    \/ \E i \in 1..Len(sim) : SimSleepDone(i)
    \/ \E i \in 1..Len(seq) : SeqResponse(i)
    \/ \E i \in 1..Len(seq) : SeqText(i)
    \/ \E i \in 1..Len(seq) : SeqFail(i)
    \/ \E i \in 1..Len(seq) : SeqSleepDone(i)
    \/ Tick

Next ==
    \/ P35Response
    \/ P35Fail
    \/ Opt1Response
    \/ Opt1Json
    \/ Opt1Fail
    \/ Opt2Response
    \/ Opt2Json
    \/ Opt2Fail
    \/ Batch

Spec == Init /\ [][Next]_vars

(***************************************************************************)
(* The scraping of any list of URLs: Option 3 alone, the other chains     *)
(* having finished.                                                       *)
(***************************************************************************)
InitBatch ==
    /\ urls \in UrlLists
    /\ remote2022 = Sample2022
    /\ file2017 = Sample2017
    /\ p35 = "fulfilled" /\ opt1 = "done" /\ opt2 = "done" /\ pc3 = "fetch65"
    /\ Blank

SpecBatch == InitBatch /\ [][Batch]_vars

(***************************************************************************)
(* The aggregate queries on any 2022 collection: the task of Option 3     *)
(* that runs lines 65-129.                                                 *)
(***************************************************************************)
InitQueries ==
    /\ urls = URLS
    /\ remote2022 \in ListsUpTo(QueryRecords, MaxRecords)
    /\ file2017 = Sample2017
    /\ p35 = "fulfilled" /\ opt1 = "done" /\ opt2 = "done" /\ pc3 = "json66"
    /\ Blank

SpecQueries == InitQueries /\ [][Opt3Json]_vars

(***************************************************************************)
(* The join of any two collections: the task of Option 3 in which the     *)
(* last timer of the sequential batch fires, which runs lines 143-198.    *)
(***************************************************************************)
Pages(n) == [j \in 1..n |-> Body(urls[j])]

InitJoin ==
    /\ urls = URLS
    /\ remote2022 \in ListsUpTo(JoinRecords2022, MaxJoin)
    /\ file2017 \in ListsUpTo(JoinRecords2017, MaxJoin)
    /\ p35 = "fulfilled" /\ opt1 = "done" /\ opt2 = "done" /\ pc3 = "await139"
    /\ data2022 = remote2022
    /\ pctOut = Some(PercentageWithCivility(data2022, "M."))
    /\ distinctOut = Some(DistinctCandidates(data2022))
    /\ sim = [i \in 1..N |-> [pc |-> "done", issued |-> TRUE, slept |-> Delay,
                              html |-> Body(urls[i])]]
    /\ simValues = [i \in 1..N |-> Some(Body(urls[i]))]
    /\ reordered = FALSE
    /\ simOut = Some(Pages(N)) /\ simElapsed = Delay
    /\ seq = [i \in 1..N |->
                [pc |-> IF i < N THEN "fulfilled" ELSE "sleep", issued |-> TRUE,
                 slept |-> Delay, html |-> Body(urls[i]),
                 pages |-> IF i < N THEN Pages(i) ELSE Pages(i - 1)]]
    /\ seqOut = None /\ seqElapsed = 0
    /\ clock = N * Delay
    /\ data2017 = <<>> /\ tallyOut = None
    /\ run = "running" /\ err = "none"

SpecJoin == InitJoin /\ [][\E i \in 1..Len(seq) : SeqSleepDone(i)]_vars

(***************************************************************************)
(* Properties.                                                             *)
(***************************************************************************)

\* C1: when the simultaneous batch resolves, webpagesSimultaneous has one
\* entry per URL and its i-th entry is the page of the i-th URL, whatever
\* the order in which the callbacks finished.
SimultaneousKeepsInputOrder ==
    simOut # None =>
        /\ Len(simOut[1]) = N
        /\ \A i \in 1..N : simOut[1][i] = Body(urls[i])

\* Reached: a batch of different URLs resolved after finishing out of order.
SimultaneousResolvedOutOfOrder ==
    /\ simOut # None
    /\ reordered
    /\ N = 3
    /\ urls[1] # urls[2]
    /\ run = "running"

\* C2: in the sequential batch, fetch i + 1 is issued only once callback i
\* is fulfilled, its full delay slept; at most one retrieval is in flight;
\* and callback i resolves to the pages of URLs 1..i in input order.
SequentialOneAtATime ==
    /\ \A i \in 2..Len(seq) :
          seq[i].issued => seq[i - 1].pc = "fulfilled" /\ seq[i - 1].slept >= Delay
    /\ Cardinality({i \in 1..Len(seq) : seq[i].pc \in InFlight}) <= 1
    /\ \A i \in 1..Len(seq) : seq[i].pc = "fulfilled" => seq[i].pages = Pages(i)

\* Reached: the second retrieval is in flight, the third not yet issued.
SequentialSecondInFlight ==
    /\ Len(seq) = 3
    /\ seq[1].pc = "fulfilled"
    /\ seq[2].pc \in InFlight
    /\ ~seq[3].issued

\* C3: once both batches have resolved, webpagesSequential equals
\* webpagesSimultaneous.
BothModesSameResult ==
    seqOut # None => simOut # None /\ seqOut[1] = simOut[1]

\* Reached: both resolved, on different URLs, the simultaneous one out of order.
BothModesResolved ==
    /\ seqOut # None
    /\ reordered
    /\ N >= 2
    /\ urls[1] # urls[2]

\* C4 as stated: for a non-empty list, the sequential batch takes at least
\* n * d and the simultaneous batch less than n * d (at most n * d for n = 1).
ElapsedBoundsAsStated ==
    N >= 1 =>
        /\ seqOut # None => seqElapsed >= N * Delay
        /\ simOut # None =>
              /\ simElapsed <= N * Delay
              /\ N >= 2 => simElapsed < N * Delay

\* C4 amended: for a non-empty list, the sequential batch takes at least
\* n * d and the simultaneous batch at least d; the latter has no bound
\* below n * d, since a fetch may answer as late as it likes.
ElapsedLowerBounds ==
    N >= 1 =>
        /\ seqOut # None => seqElapsed >= N * Delay
        /\ simOut # None => simElapsed >= Delay

\* Reached: both batches resolved, the simultaneous one after n * d or more.
SimultaneousSlowerThanBound ==
    /\ N >= 2
    /\ seqOut # None
    /\ simElapsed >= N * Delay
    /\ seqElapsed >= N * Delay

\* C5: from line 129 on every fetch of the simultaneous batch has been
\* issued; a callback is done only after its page was read and the full
\* delay slept; webpagesSimultaneous resolves only when all are done.
SimultaneousAllIssued ==
    /\ pctOut # None => Len(sim) = N
    /\ \A i \in 1..Len(sim) :
          /\ sim[i].issued
          /\ sim[i].pc = "done" => sim[i].slept >= Delay /\ sim[i].html = Body(urls[i])
    /\ simOut # None => \A i \in 1..Len(sim) : sim[i].pc = "done"

\* Reached: three retrievals in flight together, none of them done.
SimultaneousAllInFlight ==
    /\ Len(sim) = 3
    /\ \A i \in 1..3 : sim[i].pc \in InFlight
    /\ sim[1].pc = "sleep" /\ sim[3].pc = "sleep" /\ sim[2].pc = "fetch"

\* The first 2017 record of the official of d, as a set of at most one index.
FirstMatch(d) ==
    {k \in 1..Len(data2017) :
        /\ SameOfficial(data2017[k], d)
        /\ \A m \in 1..(k - 1) : ~SameOfficial(data2017[m], d)}

Endorsers(c) ==
    {i \in 1..Len(data2022) :
        /\ data2022[i].candidate = "zemmour"
        /\ \E k \in FirstMatch(data2022[i]) : data2017[k].candidate = c}

\* C6: the tally maps each 2017 candidate c to the number of 2022 records of
\* the chosen candidate whose first 2017 record with the same name and
\* constituency names c, and has keys only for candidates with such a
\* record; records without a match add nothing and the script goes on.
JoinTallyCounts ==
    tallyOut # None =>
        /\ DOMAIN tallyOut[1] =
              {c \in {data2017[k].candidate : k \in 1..Len(data2017)} : Endorsers(c) # {}}
        /\ \A c \in DOMAIN tallyOut[1] : tallyOut[1][c] = Cardinality(Endorsers(c))
        /\ run = "running" /\ pc3 = "done"

\* Reached: two endorsers counted for the first of two 2017 records of one
\* official that name different candidates.
JoinCountsTwoFirstMatch ==
    /\ tallyOut # None
    /\ Len(data2017) = 2
    /\ SameOfficial(data2017[1], data2017[2])
    /\ data2017[1].candidate # data2017[2].candidate
    /\ DOMAIN tallyOut[1] = {data2017[1].candidate}
    /\ tallyOut[1][data2017[1].candidate] = 2

FailedSomewhere ==
    \/ p35 = "rejected" \/ opt1 = "failed" \/ opt2 = "failed" \/ pc3 = "failed"
    \/ \E i \in 1..Len(sim) : sim[i].pc = "failed"
    \/ \E i \in 1..Len(seq) : seq[i].pc = "failed"

RECURSIVE HasDuplicate(_)
HasDuplicate(s) ==
    IF s = <<>> THEN FALSE
    ELSE (\E i \in 1..Len(Tail(s)) : Tail(s)[i] = Head(s)) \/ HasDuplicate(Tail(s))

\* C8: the logged list of candidates has no duplicate, and each of its
\* entries is the candidate of some record.
DistinctCandidatesSound ==
    distinctOut # None =>
        /\ ~HasDuplicate(distinctOut[1])
        /\ \A i \in 1..Len(distinctOut[1]) :
              \E j \in 1..Len(data2022) : data2022[j].candidate = distinctOut[1][i]

\* Reached: three records, two of them of the same candidate.
DistinctCandidatesDeduplicated ==
    /\ distinctOut # None
    /\ Len(data2022) = 3
    /\ Len(distinctOut[1]) = 2

RECURSIVE SumNum(_, _)
SumNum(R, values) ==
    IF values = {} THEN 0
    ELSE LET v == CHOOSE x \in values : TRUE
         IN  PercentageWithCivility(R, v).num + SumNum(R, values \ {v})

CivilitiesIn(R) == {R[i].civility : i \in 1..Len(R)}

\* C9: for a non-empty collection, the percentage of any civility value is
\* between 0 and 100, and the percentages of the values present add up to
\* 100 (as exact fractions over the record count).
PercentagesPartition ==
    pctOut # None /\ Len(data2022) > 0 =>
        /\ pctOut[1] = PercentageWithCivility(data2022, "M.")
        /\ \A v \in CivilitiesIn(data2022) \cup {"M.", "Mme", "absent"} :
              LET p == PercentageWithCivility(data2022, v)
              IN  p.den = Len(data2022) /\ 0 <= p.num /\ p.num <= 100 * p.den
        /\ SumNum(data2022, CivilitiesIn(data2022)) = 100 * Len(data2022)

\* Reached: one 'M.' among three records of three civilities.
PercentageOneThird ==
    /\ pctOut # None
    /\ Len(data2022) = 3
    /\ Cardinality(CivilitiesIn(data2022)) = 3
    /\ pctOut[1] = [num |-> 100, den |-> 3]

\* C10: when callback k of the sequential batch fails, no later callback
\* has issued its fetch, webpagesSequential is never assigned and Option 3
\* fails with a retrieval or decode error; when a callback of the
\* simultaneous batch fails, every fetch of that batch has been issued.
FailureStopsSequentialOnly ==
    /\ \A k \in 1..Len(seq) :
          seq[k].pc = "failed" =>
              /\ \A j \in (k + 1)..Len(seq) : ~seq[j].issued /\ seq[j].pc = "rejected"
              /\ seqOut = None
              /\ pc3 = "failed"
              /\ err \in {"RetrievalError", "DecodeError"}
    /\ \A k \in 1..Len(sim) :
          sim[k].pc = "failed" =>
              /\ Len(sim) = N
              /\ \A j \in 1..Len(sim) : sim[j].issued
              /\ simOut = None
              /\ pc3 = "failed"

\* Reached: the first of three sequential retrievals failed.
SequentialFirstFailed ==
    /\ Len(seq) = 3
    /\ seq[1].pc = "failed"
    /\ err = "RetrievalError"

====
